---- MODULE Spec2Model ----
(***************************************************************************)
(* A model of src/common.py: the dip-threshold calibration                 *)
(* (get_picked_points), the buy signal (get_buy_signal), the universe      *)
(* filters (filter_garbage_series, filter_low_volume_series with           *)
(* web_scraping) and the portfolio builder (get_trading_list).             *)
(*                                                                         *)
(* Prices are positive integers.  Every ratio the code computes in         *)
(* floating point is computed here as an exact fraction [num, den] with    *)
(* den > 0, compared by cross-multiplication; rounding of IEEE doubles is  *)
(* not modelled.  Python lists and numpy arrays indexed from 0 are         *)
(* functions on 0..n-1; lists that are only built and iterated are         *)
(* sequences.                                                              *)
(***************************************************************************)
EXTENDS Integers, Sequences, FiniteSets, TLC

VARIABLES
    pc,            \* which call has returned: "start", then the name of the function
    series,        \* get_picked_points / get_buy_signal: the price series argument
    price,         \* get_buy_signal: the price argument
    scan,          \* get_picked_points: its locals down_t and down_percent
    out,           \* the result (or the exception) of the call
    buy_symbols,   \* get_trading_list: the list argument, sorted in place
    trading_list,  \* get_trading_list: the returned list
    divided,       \* get_trading_list: a division by ac was executed
    all_series,    \* the filters: the dict argument, ticker -> series
    res,           \* the filters: the returned dict
    volumes_file,  \* data/volumes.json: the persisted volume cache
    fetched        \* filter_low_volume_series: tickers web_scraping was called for

vars == <<pc, series, price, scan, out, buy_symbols, trading_list, divided,
          all_series, res, volumes_file, fetched>>

calVars == <<series, price, scan>>
tradeVars == <<buy_symbols, trading_list, divided>>
filterVars == <<all_series, res, volumes_file, fetched>>

(***************************************************************************)
(* Bounds of the model.                                                    *)
(***************************************************************************)
MaxSeriesLen == 8      \* series of 1..MaxSeriesLen prices
MaxPrice == 2          \* prices 1..MaxPrice
NumTickers == 4        \* tickers 1..NumTickers, numbered in alphabetical order
MaxReturn == 2         \* expected returns 0..MaxReturn, in hundredths
MaxCloses == 2         \* the garbage filter: series of 1..MaxCloses prices
MaxClose == 4          \* the garbage filter: prices 1..MaxClose

(***************************************************************************)
(* Program constants.                                                      *)
(***************************************************************************)
DATE_RANGE == 5
MAX_STOCK_PICK == 3
VOLUME_FILTER_THRESHOLD == 10000
TOL == 50
MIN_RETURN == 1        \* the floor 0.01 of line 159, in hundredths
GARBAGE_FILTER_TENTHS == 7   \* GARBAGE_FILTER_THRESHOLD = 0.7, in tenths

(***************************************************************************)
(* Exact fractions.                                                        *)
(***************************************************************************)
Rat(n, d) == [num |-> n, den |-> d]

\* np.finfo(float).min, below every quotient of prices: marked by den = 0.
FinfoMin == [num |-> -1, den |-> 0]

RatGT(a, b) ==
    IF b.den = 0 THEN a.den # 0
    ELSE IF a.den = 0 THEN FALSE
    ELSE a.num * b.den > b.num * a.den

RatGE(a, b) == ~RatGT(b, a)

RatEq(a, b) == ~RatGT(a, b) /\ ~RatGT(b, a)

RatAdd(a, b) == Rat(a.num * b.den + b.num * a.den, a.den * b.den)

RECURSIVE RatSum(_)
RatSum(q) == IF q = <<>> THEN Rat(0, 1) ELSE RatAdd(Head(q), RatSum(Tail(q)))

\* np.average of a non-empty list
Average(q) == LET s == RatSum(q) IN Rat(s.num, s.den * Len(q))

(***************************************************************************)
(* Python helpers.                                                         *)
(***************************************************************************)
PyLen(s) == Cardinality(DOMAIN s)

Last(s) == s[PyLen(s) - 1]

SetMax(S) == CHOOSE m \in S : \A x \in S : x <= m

\* np.max(s[lo:hi]) for 0 <= lo < hi
SliceMax(s, lo, hi) ==
    SetMax({s[i] : i \in {j \in DOMAIN s : lo <= j /\ j < hi}})

\* np.max(s[-DATE_RANGE:])
TailMax(s) ==
    LET n == PyLen(s)
        lo == IF n > DATE_RANGE THEN n - DATE_RANGE ELSE 0
    IN SliceMax(s, lo, n)

(***************************************************************************)
(* get_picked_points.  Positions in down_t, down_percent and pick_ti count *)
(* from 1 here (from 0 in the code); the entries of down_t are the code's  *)
(* indices into series.                                                    *)
(***************************************************************************)
\* A dip test turned around: a rise counts as a dip.
IsDownRising(s, i) == s[i] <= s[i + 1]

\* line 39: the condition that makes i + 1 a dip event
IsDown(s, i) == s[i] >= s[i + 1]

RECURSIVE DownFrom(_, _)
DownFrom(s, i) ==
    IF i > PyLen(s) - 2 THEN <<>>
    ELSE (IF IsDown(s, i) THEN <<i + 1>> ELSE <<>>) \o DownFrom(s, i + 1)

\* line 39: [i + 1 for i in range(DATE_RANGE - 1, len(series) - 1) if ...]
down_t(s) == DownFrom(s, DATE_RANGE - 1)

\* line 40, one element: the depth of the dip at index i
Depth(s, i) ==
    LET m == SliceMax(s, i - DATE_RANGE, i) IN Rat(m - s[i], m)

\* line 40
down_percent(s, dt) == [k \in 1..Len(dt) |-> Depth(s, dt[k])]

\* line 41: sorted(range(len(down_percent)), key=..., reverse=True), a stable
\* sort: positions of equal depth keep their order.
RECURSIVE SortedUpTo(_, _)
SortedUpTo(dp, n) ==
    IF n = 0 THEN <<>>
    ELSE LET prev == SortedUpTo(dp, n - 1)
             pos == Cardinality({j \in 1..Len(prev) : RatGE(dp[prev[j]], dp[n])})
         IN SubSeq(prev, 1, pos) \o <<n>> \o SubSeq(prev, pos + 1, Len(prev))

pick_ti(dp) == SortedUpTo(dp, Len(dp))

\* line 47, one element
Gain(s, t) == Rat(s[t + 1] - s[t], s[t])

RECURSIVE GainsOf(_, _)
GainsOf(s, ts) ==
    IF ts = <<>> THEN <<>>
    ELSE (IF Head(ts) + 1 < PyLen(s) THEN <<Gain(s, Head(ts))>> ELSE <<>>)
         \o GainsOf(s, Tail(ts))

\* line 46
PotentialT(dt, pti, n_point) == [k \in 1..n_point |-> dt[pti[k]]]

\* line 45: the last n_point of range(1, len(pick_ti))
LastNPoint(pti) == Len(pti) - 1

\* lines 45-56: the loop from n_point on, st = [tol, max_avg_gain, n_pick]
RECURSIVE PickLoop(_, _, _, _, _)
PickLoop(s, dt, pti, n_point, st) ==
    IF n_point > LastNPoint(pti) THEN st
    ELSE LET gains == GainsOf(s, PotentialT(dt, pti, n_point))
         IN IF Len(gains) = 0 THEN PickLoop(s, dt, pti, n_point + 1, st)
            ELSE LET avg_gain == Average(gains)
                     st2 == IF RatGT(avg_gain, st.max_avg_gain)
                            THEN [st EXCEPT !.n_pick = n_point,
                                            !.max_avg_gain = avg_gain]
                            ELSE [st EXCEPT !.tol = st.tol - 1]
                 IN IF st2.tol = 0 THEN st2
                    ELSE PickLoop(s, dt, pti, n_point + 1, st2)

\* lines 38-60.  pick_ti[n_pick - 1] with n_pick = 0 is pick_ti[-1]: the last
\* element, or an IndexError on the empty list.
get_picked_points(s) ==
    LET dt == down_t(s)
        dp == down_percent(s, dt)
        pti == pick_ti(dp)
        st == PickLoop(s, dt, pti, 1,
                       [tol |-> TOL, max_avg_gain |-> FinfoMin, n_pick |-> 0])
        threshold_i == IF st.n_pick = 0 THEN Len(pti) ELSE st.n_pick
    IN IF Len(pti) = 0 THEN [kind |-> "IndexError"]
       ELSE [kind |-> "ok",
             pick_t |-> [k \in 1..st.n_pick |-> dt[pti[k]]],
             n_pick |-> st.n_pick,
             max_avg_gain |-> st.max_avg_gain,
             threshold |-> dp[pti[threshold_i]]]

(***************************************************************************)
(* get_buy_signal, lines 63-68.  calibrated records whether                *)
(* get_picked_points was called.                                           *)
(***************************************************************************)
\* The early return taken only on a strict rise.
NoDropStrict(s, p) == p > Last(s)

\* line 64
NoDrop(s, p) == p >= Last(s)

get_buy_signal(s, p) ==
    IF NoDrop(s, p)
    THEN [kind |-> "ok", avg_return |-> Rat(0, 1), is_buy |-> FALSE,
          calibrated |-> FALSE]
    ELSE LET cal == get_picked_points(s)
             m == TailMax(s)
             dpc == Rat(m - p, m)
         IN IF cal.kind # "ok" THEN [kind |-> cal.kind, calibrated |-> TRUE]
            ELSE [kind |-> "ok", avg_return |-> cal.max_avg_gain,
                  is_buy |-> RatGT(dpc, cal.threshold), calibrated |-> TRUE]

(***************************************************************************)
(* Values of the variables a specification does not use.                   *)
(***************************************************************************)
NoValue == [kind |-> "none"]
EmptyDict == [t \in {} |-> 0]

IdleCalibration ==
    /\ series = EmptyDict
    /\ price = 0
    /\ scan = NoValue

IdleTrading ==
    /\ buy_symbols = <<>>
    /\ trading_list = <<>>
    /\ divided = FALSE

IdleFilters ==
    /\ all_series = <<>>
    /\ res = <<>>
    /\ volumes_file = EmptyDict
    /\ fetched = {}

(***************************************************************************)
(* Calibration and buy signal on one series.                               *)
(***************************************************************************)
SeriesInputs == UNION {[0..(n - 1) -> 1..MaxPrice] : n \in 1..MaxSeriesLen}

InitCalibration ==
    /\ pc = "start"
    /\ series \in SeriesInputs
    /\ price = 0
    /\ scan = NoValue
    /\ out = NoValue
    /\ IdleTrading
    /\ IdleFilters

GetPickedPoints ==
    /\ pc = "start"
    /\ pc' = "get_picked_points"
    /\ scan' = [kind |-> "locals",
                down_t |-> down_t(series),
                down_percent |-> down_percent(series, down_t(series))]
    /\ out' = get_picked_points(series)
    /\ UNCHANGED <<series, price, tradeVars, filterVars>>

GetBuySignal ==
    /\ pc = "start"
    /\ \E p \in 1..MaxPrice :
        /\ price' = p
        /\ out' = get_buy_signal(series, p)
    /\ pc' = "get_buy_signal"
    /\ UNCHANGED <<series, scan, tradeVars, filterVars>>

NextCalibration == GetPickedPoints \/ GetBuySignal

SpecCalibration == InitCalibration /\ [][NextCalibration]_vars

(***************************************************************************)
(* get_trading_list, lines 156-169.  A buy symbol is the pair              *)
(* <<expectedReturn, ticker>>, the return in hundredths, the ticker a      *)
(* number that stands for its place in the alphabet.                       *)
(***************************************************************************)
\* A comparison by the return alone, as sort(key=...) would make.
TupleGEByReturn(a, b) == a[1] >= b[1]

\* line 157: the order of Python tuples, a >= b
TupleGE(a, b) == a[1] > b[1] \/ (a[1] = b[1] /\ a[2] >= b[2])

\* line 157: list.sort(reverse=True), stable
RECURSIVE SortReverse(_)
SortReverse(bs) ==
    IF bs = <<>> THEN <<>>
    ELSE LET n == Len(bs)
             prev == SortReverse(SubSeq(bs, 1, n - 1))
             pos == Cardinality({j \in 1..Len(prev) : TupleGE(prev[j], bs[n])})
         IN SubSeq(prev, 1, pos) \o <<bs[n]>> \o SubSeq(prev, pos + 1, Len(prev))

PyMin(a, b) == IF a <= b THEN a ELSE b

\* The floor tested with > in place of >=.
AcceptAboveFloor(bs, n) ==
    /\ n < PyMin(MAX_STOCK_PICK, Len(bs))
    /\ bs[n + 1][1] > MIN_RETURN

\* line 159: the condition of the while loop
Accept(bs, n) ==
    /\ n < PyMin(MAX_STOCK_PICK, Len(bs))
    /\ bs[n + 1][1] >= MIN_RETURN

\* lines 158-160
RECURSIVE CountFrom(_, _)
CountFrom(bs, n) == IF Accept(bs, n) THEN CountFrom(bs, n + 1) ELSE n

RECURSIVE SumReturns(_, _)
SumReturns(bs, n) == IF n = 0 THEN 0 ELSE SumReturns(bs, n - 1) + bs[n][1]

\* The total taken over the whole list, not over the accepted symbols.
AcOfAll(bs, n) == SumReturns(bs, Len(bs))

\* lines 161-163
Ac(bs, n) == SumReturns(bs, n)

\* line 166: 0.75 / n_symbols + 0.25 * buy_symbols[i][0] / ac
Proportion(bs, n, i) == RatAdd(Rat(3, 4 * n), Rat(bs[i][1], 4 * Ac(bs, n)))

get_trading_list(bs) ==
    LET sorted == SortReverse(bs)
        n_symbols == CountFrom(sorted, 0)
    IN [buy_symbols |-> sorted,
        divided |-> n_symbols > 0,
        trading_list |-> [i \in 1..n_symbols |->
                              <<sorted[i][2], Proportion(sorted, n_symbols, i)>>]]

(***************************************************************************)
(* The portfolio builder on one list of buy symbols.  get_buy_symbols      *)
(* (lines 146-153) appends one pair per ticker of a dict, so the tickers   *)
(* of a list are distinct; the order of arrival is any order.              *)
(***************************************************************************)
Tickers == 1..NumTickers

BuyLists ==
    UNION {{bs \in [1..n -> (0..MaxReturn) \X Tickers] :
               \A i, j \in 1..n : i # j => bs[i][2] # bs[j][2]} : n \in 0..NumTickers}

InitTrading ==
    /\ pc = "start"
    /\ buy_symbols \in BuyLists
    /\ trading_list = <<>>
    /\ divided = FALSE
    /\ out = NoValue
    /\ IdleCalibration
    /\ IdleFilters

GetTradingList ==
    LET r == get_trading_list(buy_symbols)
    IN /\ buy_symbols' = r.buy_symbols
       /\ trading_list' = r.trading_list
       /\ divided' = r.divided
       /\ pc' = "get_trading_list"
       /\ UNCHANGED <<out, calVars, filterVars>>

\* The same pairs arrive in another order: two neighbours change places.
Reorder ==
    /\ \E i \in 1..(Len(buy_symbols) - 1) :
        buy_symbols' = [buy_symbols EXCEPT ![i] = buy_symbols[i + 1],
                                           ![i + 1] = buy_symbols[i]]
    /\ UNCHANGED <<pc, out, trading_list, divided, calVars, filterVars>>

NextTrading == GetTradingList \/ Reorder

SpecTrading == InitTrading /\ [][NextTrading]_vars

(***************************************************************************)
(* The universe filters.  A dict of series is the sequence of its items    *)
(* <<ticker, series>> in insertion order, the order .items() iterates in.  *)
(***************************************************************************)
UniverseTickers == {"AAPL", "MSFT"}

Keys(d) == {d[i][1] : i \in 1..Len(d)}

\* The dicts of the tickers of T, each with a series of S, in every order.
DictsOf(T, S) ==
    UNION {{d \in [1..n -> T \X S] :
               \A i, j \in 1..n : i # j => d[i][1] # d[j][1]} : n \in 0..Cardinality(T)}

\* The lowest price taken for the highest.
SeriesLow(s) == CHOOSE m \in {s[i] : i \in DOMAIN s} : \A i \in DOMAIN s : m <= s[i]

\* line 108: np.max(series)
SeriesHigh(s) == SliceMax(s, 0, PyLen(s))

\* line 108: np.max(series) * GARBAGE_FILTER_THRESHOLD <= series[-1]
KeepSeries(s) == SeriesHigh(s) * GARBAGE_FILTER_TENTHS <= Last(s) * 10

\* lines 105-110
filter_garbage_series(d) == SelectSeq(d, LAMBDA item : KeepSeries(item[2]))

CloseSeries == UNION {[0..(n - 1) -> 1..MaxClose] : n \in 1..MaxCloses}

InitGarbage ==
    /\ pc = "start"
    /\ all_series \in DictsOf(UniverseTickers, CloseSeries)
    /\ res = <<>>
    /\ volumes_file = EmptyDict
    /\ fetched = {}
    /\ out = NoValue
    /\ IdleCalibration
    /\ IdleTrading

FilterGarbageSeries ==
    /\ pc = "start"
    /\ res' = filter_garbage_series(all_series)
    /\ pc' = "filter_garbage_series"
    /\ UNCHANGED <<all_series, volumes_file, fetched, out, calVars, tradeVars>>

NextGarbage == FilterGarbageSeries

SpecGarbage == InitGarbage /\ [][NextGarbage]_vars

(***************************************************************************)
(* web_scraping, lines 172-192.  The content of a response is a sequence   *)
(* of characters, the prefix searched for standing as one of them.         *)
(***************************************************************************)
Prefix == "regularMarketVolume"

Digits == <<"0", "1", "2", "3", "4", "5", "6", "7", "8", "9">>

IsDigit(ch) == \E d \in 1..10 : Digits[d] = ch

DigitValue(ch) == (CHOOSE d \in 1..10 : Digits[d] = ch) - 1

\* lines 178-182: c.find(prefix), 0 when absent (positions count from 1 here)
Find(c) ==
    IF \E i \in 1..Len(c) : c[i] = Prefix
    THEN CHOOSE i \in 1..Len(c) : c[i] = Prefix /\ \A j \in 1..(i - 1) : c[j] # Prefix
    ELSE 0

\* lines 185-186: the position of the first digit from pos on, 0 for the
\* IndexError of running off the end
RECURSIVE SkipToDigit(_, _)
SkipToDigit(c, pos) ==
    IF pos > Len(c) THEN 0
    ELSE IF ~IsDigit(c[pos]) THEN SkipToDigit(c, pos + 1)
    ELSE pos

\* lines 187-189: the digits and dots from pos on
RECURSIVE TakeNumber(_, _, _)
TakeNumber(c, pos, s) ==
    IF pos > Len(c) THEN [kind |-> "IndexError"]
    ELSE IF IsDigit(c[pos]) \/ c[pos] = "."
         THEN TakeNumber(c, pos + 1, Append(s, c[pos]))
         ELSE [kind |-> "ok", text |-> s]

\* lines 172-192: first is the response to the request, second the response to
\* the retry made when first is not ok
web_scraping(first, second) ==
    LET r == IF ~first.ok THEN second ELSE first
        c == r.content
        pos == Find(c)
    IN IF pos = 0 THEN [kind |-> "Exception"]
       ELSE IF SkipToDigit(c, pos) = 0 THEN [kind |-> "IndexError"]
       ELSE TakeNumber(c, SkipToDigit(c, pos), <<>>)

RECURSIVE DecimalValue(_)
DecimalValue(s) ==
    IF s = <<>> THEN 0
    ELSE 10 * DecimalValue(SubSeq(s, 1, Len(s) - 1)) + DigitValue(s[Len(s)])

\* line 126: int(text)
PyInt(s) ==
    IF s # <<>> /\ \A i \in 1..Len(s) : IsDigit(s[i])
    THEN [kind |-> "ok", value |-> DecimalValue(s)]
    ELSE [kind |-> "ValueError"]

(***************************************************************************)
(* filter_low_volume_series, lines 113-133.  web[t] is the pair of         *)
(* responses the quote page of ticker t gives during the call.             *)
(***************************************************************************)
\* line 126: int(web_scraping(url, prefixes))
Lookup(web, ticker) ==
    LET w == web_scraping(web[ticker][1], web[ticker][2])
    IN IF w.kind # "ok" THEN w ELSE PyInt(w.text)

\* lines 120-129: the loop from item i on; st = [kind, res, fetched, overwrite]
RECURSIVE VolumeLoop(_, _, _, _, _)
VolumeLoop(d, volumes, web, i, st) ==
    IF i > Len(d) THEN st
    ELSE LET ticker == d[i][1]
             cached == ticker \in DOMAIN volumes
             v == IF cached THEN [kind |-> "ok", value |-> volumes[ticker]]
                  ELSE Lookup(web, ticker)
             seen == IF cached THEN st.fetched ELSE st.fetched \cup {ticker}
         IN IF v.kind # "ok"
            THEN [st EXCEPT !.kind = v.kind, !.fetched = seen, !.failed = ticker]
            ELSE VolumeLoop(d, volumes, web, i + 1,
                    [st EXCEPT !.fetched = seen,
                               !.overwrite = st.overwrite \/ ~cached,
                               !.res = IF v.value >= VOLUME_FILTER_THRESHOLD
                                       THEN Append(st.res, d[i]) ELSE st.res])

\* lines 113-133: volumes is what line 117 read from the cache file; file is
\* the content of the cache file when the call ends.  Line 132 writes the dict
\* volumes, to which no line adds a key.
filter_low_volume_series(d, volumes, web) ==
    LET st == VolumeLoop(d, volumes, web, 1,
                  [kind |-> "ok", res |-> <<>>, fetched |-> {},
                   overwrite |-> FALSE, failed |-> "none"])
    IN [kind |-> st.kind,
        failed |-> st.failed,
        res |-> IF st.kind = "ok" THEN st.res ELSE <<>>,
        fetched |-> st.fetched,
        file |-> volumes]

PageOf(text) == <<"<", Prefix, ":">> \o text \o <<",">>

Pages ==
    { PageOf(<<"2", "0", "0", "0", "0">>),
      PageOf(<<"1", "0", "0", "0", "0">>),
      PageOf(<<"9", "9", "9", "9">>),
      PageOf(<<"1", ".", "5">>),
      <<"<", Prefix, ":">>,
      <<"<", "e", "r", "r", "o", "r", ">">> }

Responses ==
    {[ok |-> TRUE, content |-> c] : c \in Pages}
        \cup {[ok |-> FALSE, content |-> <<"<", "e", "r", "r", "o", "r", ">">>]}

CachedVolumes == {VOLUME_FILTER_THRESHOLD - 1, VOLUME_FILTER_THRESHOLD}

InitVolume ==
    /\ pc = "start"
    /\ all_series \in DictsOf(UniverseTickers, {[i \in {0} |-> 1]})
    /\ res = <<>>
    /\ volumes_file \in UNION {[T -> CachedVolumes] : T \in SUBSET UniverseTickers}
    /\ fetched = {}
    /\ out = NoValue
    /\ IdleCalibration
    /\ IdleTrading

FilterLowVolumeSeries ==
    /\ \E web \in [UniverseTickers -> Responses \X Responses] :
        LET r == filter_low_volume_series(all_series, volumes_file, web)
        IN /\ res' = r.res
           /\ fetched' = r.fetched
           /\ volumes_file' = r.file
           /\ out' = [kind |-> r.kind, failed |-> r.failed]
    /\ pc' = "filter_low_volume_series"
    /\ UNCHANGED <<all_series, calVars, tradeVars>>

NextVolume == FilterLowVolumeSeries

SpecVolume == InitVolume /\ [][NextVolume]_vars

(***************************************************************************)
(* Claims about get_buy_signal and get_picked_points (SpecCalibration).    *)
(***************************************************************************)
NonDecreasing(s) == \A i \in DOMAIN s : (i + 1) \in DOMAIN s => s[i] <= s[i + 1]

\* C1: for a non-empty series and a price >= series[-1], get_buy_signal
\* returns exactly (0, False) and get_picked_points is not called.
C1_EarlyReturn ==
    (pc = "get_buy_signal" /\ price >= Last(series))
        => out = [kind |-> "ok", avg_return |-> Rat(0, 1), is_buy |-> FALSE,
                  calibrated |-> FALSE]

\* C1 witness: the early return on a series longer than the window on which
\* the calibration itself ends in an IndexError.
C1_Witness ==
    /\ pc = "get_buy_signal"
    /\ price >= Last(series)
    /\ PyLen(series) > DATE_RANGE
    /\ get_picked_points(series).kind = "IndexError"
    /\ out.kind = "ok" /\ ~out.is_buy /\ ~out.calibrated

\* C5 as claimed: on a non-decreasing series the scan finds no dip event and
\* the call ends in DegenerateCalibrationError.
C5_Claim ==
    (pc = "get_picked_points" /\ NonDecreasing(series))
        => (Len(scan.down_t) = 0 /\ out.kind = "DegenerateCalibrationError")

\* C6: every detected dip event t has t >= DATE_RANGE, series[t-1] >= series[t]
\* and a depth in [0, 1).
C6_DepthRange ==
    pc = "get_picked_points" =>
        \A k \in 1..Len(scan.down_t) :
            LET t == scan.down_t[k]
                d == scan.down_percent[k]
            IN /\ t >= DATE_RANGE
               /\ series[t - 1] >= series[t]
               /\ d.den > 0
               /\ 0 <= d.num
               /\ d.num < d.den

\* C6 witness: a scan that found a dip of depth 0 and a dip of positive depth.
C6_Witness ==
    /\ pc = "get_picked_points"
    /\ \E k \in 1..Len(scan.down_t) : scan.down_percent[k].num = 0
    /\ \E k \in 1..Len(scan.down_t) : scan.down_percent[k].num > 0

\* The mean next-day rebound of the k deepest events of the scan (events whose
\* next day is out of range skipped), and the k for which it is defined.
C9_Rebounds(k) ==
    GainsOf(series, PotentialT(scan.down_t, pick_ti(scan.down_percent), k))

C9_Mean(k) == Average(C9_Rebounds(k))

C9_Candidates == {k \in 1..Len(scan.down_t) : Len(C9_Rebounds(k)) > 0}

C9_BestK ==
    CHOOSE k \in C9_Candidates :
        \A j \in C9_Candidates :
            /\ RatGE(C9_Mean(k), C9_Mean(j))
            /\ j < k => RatGT(C9_Mean(k), C9_Mean(j))

\* C9 as claimed: with N >= 2 dip events (fewer than the early-stop counter
\* can use up), averageRebound is the maximum over k = 1..N of the mean
\* rebound of the k deepest events, k* is the smallest k attaining it and
\* the threshold is the depth of the k*-th deepest event.
C9_Claim ==
    (pc = "get_picked_points" /\ Len(scan.down_t) >= 2 /\ Len(scan.down_t) <= TOL)
        => /\ out.kind = "ok"
           /\ RatEq(out.max_avg_gain, C9_Mean(C9_BestK))
           /\ out.n_pick = C9_BestK
           /\ RatEq(out.threshold,
                    scan.down_percent[pick_ti(scan.down_percent)[C9_BestK]])

(***************************************************************************)
(* Claims about get_trading_list (SpecTrading).                            *)
(***************************************************************************)
ReturnOf(ticker) ==
    LET i == CHOOSE j \in 1..Len(buy_symbols) : buy_symbols[j][2] = ticker
    IN buy_symbols[i][1]

Listed == {trading_list[k][1] : k \in 1..Len(trading_list)}

ProportionSum == RatSum([k \in 1..Len(trading_list) |-> trading_list[k][2]])

C3_Prefix ==
    pc = "get_trading_list" =>
        LET above == {i \in 1..Len(buy_symbols) : buy_symbols[i][1] >= MIN_RETURN}
            n == PyMin(MAX_STOCK_PICK, Cardinality(above))
        IN /\ Len(trading_list) = n
           /\ Cardinality(Listed) = n
           /\ \A k \in 1..n : ReturnOf(trading_list[k][1]) >= MIN_RETURN
           /\ \A k \in 1..(n - 1) :
                  ReturnOf(trading_list[k][1]) >= ReturnOf(trading_list[k + 1][1])
           /\ \A i \in 1..Len(buy_symbols) :
                  buy_symbols[i][2] \notin Listed =>
                      \A k \in 1..n : buy_symbols[i][1] <= ReturnOf(trading_list[k][1])
           /\ n = 0 => (trading_list = <<>> /\ ~divided)

\* C3 witness: more than MAX_STOCK_PICK symbols reach the floor and the list
\* is cut to MAX_STOCK_PICK of them.
C3_Witness ==
    /\ pc = "get_trading_list"
    /\ Cardinality({i \in 1..Len(buy_symbols) : buy_symbols[i][1] >= MIN_RETURN})
           > MAX_STOCK_PICK
    /\ Len(trading_list) = MAX_STOCK_PICK

\* C4: a call on the same pairs in another order of arrival, or on the list
\* an earlier call sorted in place, returns the same ordered trading list.
C4_OrderIndependent ==
    [][(pc = "get_trading_list" /\ pc' = "get_trading_list")
           => trading_list' = trading_list]_vars

\* C4 witness: after a call, two symbols of equal return stand in the list in
\* the order opposite to the one the sort gives them.
C4_Witness ==
    /\ pc = "get_trading_list"
    /\ Len(trading_list) >= 2
    /\ \E i \in 1..(Len(buy_symbols) - 1) :
           /\ buy_symbols[i][1] = buy_symbols[i + 1][1]
           /\ buy_symbols[i][1] >= MIN_RETURN
           /\ buy_symbols[i][2] < buy_symbols[i + 1][2]

(***************************************************************************)
(* Claims about the universe filters (SpecGarbage, SpecVolume).            *)
(***************************************************************************)
\* C7: filter_garbage_series returns exactly the items whose series has no
\* price p with p * 0.7 > series[-1], each with its series unchanged and in
\* the order of the input, and leaves the input dict as it was.
C7_GarbageFilter ==
    [][pc' = "filter_garbage_series" =>
          /\ all_series' = all_series
          /\ \A i \in 1..Len(all_series) :
                 LET s == all_series[i][2]
                     dropped == \E j \in DOMAIN s :
                                    s[j] * GARBAGE_FILTER_TENTHS > Last(s) * 10
                 IN IF dropped THEN all_series[i][1] \notin Keys(res')
                    ELSE \E k \in 1..Len(res') : res'[k] = all_series[i]
          /\ Keys(res') \subseteq Keys(all_series)
          /\ Len(res') = Cardinality(Keys(res'))]_vars

\* C7 witness: of two tickers one is dropped and one, whose last price is
\* below its highest, is kept.
C7_Witness ==
    /\ pc = "filter_garbage_series"
    /\ Len(all_series) = 2
    /\ Len(res) = 1
    /\ Last(res[1][2]) < SeriesHigh(res[1][2])

\* C8 as claimed: in a run over several tickers a volume lookup that fails for
\* one ticker does not abort the run, and the tickers whose volume is known
\* are kept or dropped by it.
C8_Claim ==
    (pc = "filter_low_volume_series" /\ Len(all_series) >= 2) =>
        /\ out.kind = "ok"
        /\ \A i \in 1..Len(all_series) :
               LET ticker == all_series[i][1]
               IN ticker \in DOMAIN volumes_file =>
                      (ticker \in Keys(res)
                           <=> volumes_file[ticker] >= VOLUME_FILTER_THRESHOLD)

\* C10 as claimed: a run fetches only tickers absent from the persisted cache,
\* and after a run that fetched every volume it asked for, the tickers it
\* fetched are in the persisted cache.
C10_Claim ==
    [][pc' = "filter_low_volume_series" =>
          /\ fetched' \cap DOMAIN volumes_file = {}
          /\ out'.kind = "ok" => fetched' \subseteq DOMAIN volumes_file']_vars

====
